---- MODULE Spec2Model ----
(***************************************************************************)
(* kindlepaper: conversion of newspaper-reader databases into toc.html,    *)
(* content.html and an OPF manifest that are handed to kindlegen.          *)
(*                                                                         *)
(* Strings are sequences of one-character strings.  A file written by the  *)
(* program is the sequence of its write calls ("chunks"); a chunk is the   *)
(* format string of the call together with its arguments.                  *)
(***************************************************************************)
EXTENDS Integers, Sequences, FiniteSets, TLC

VARIABLES
    papers,       \* the &[Config] handed to convert_papers
    dbs,          \* temp_dir()/<name>.db of each paper, as acquisition left it
    cur,          \* position of the for loop of convert_papers (1-based)
    pc,           \* the statement of convert_papers that runs next
    articles,     \* the Vec<Article> of the paper being converted
    pattern,      \* the LIKE pattern bound to select_stmt
    tocFile,      \* temp_dir()/toc.html
    contentFile,  \* temp_dir()/content.html
    opfFiles,     \* the papers whose temp_dir()/<title>.opf has been written
    mobi,         \* what each kindlegen run compiled
    log,          \* the calls convert_papers has made, in order
    line,         \* one content line (line rendering on its own)
    rendered,     \* what write_articles emits for that line
    names         \* two (title, index) pairs and their anchor names

vars == <<papers, dbs, cur, pc, articles, pattern, tocFile, contentFile,
          opfFiles, mobi, log, line, rendered, names>>

(***************************************************************************)
(* Bounds of the model.                                                    *)
(***************************************************************************)
MaxPapers == 2
MaxArticles == 3
MaxTitleLen == 1
MaxIdx == 11
MaxRefidLen == 7
MaxPieces == 4
MaxNameLen == 2

(***************************************************************************)
(* Constants of the program.                                               *)
(***************************************************************************)
PrefixLen == 6
MarkerLen == 16
CloseLen == 6

CONTENT_FILE == <<"c","o","n","t","e","n","t",".","h","t","m","l">>
TOC_FILE == <<"t","o","c",".","h","t","m","l">>

Marker == <<"<","d","i","v"," ","c","l","a","s","s","=","'","h","3","'",">">>
Close == <<"<","/","d","i","v",">">>

(***************************************************************************)
(* String primitives of the standard library, as the program uses them.    *)
(***************************************************************************)
Min(a, b) == IF a < b THEN a ELSE b

\* s.chars().take(n) collected into a String
Take(s, n) == SubSeq(s, 1, Min(n, Len(s)))

\* &s[a..b], byte offsets counted from 0, b exclusive
Slice(s, a, b) == SubSeq(s, a + 1, b)

\* whether p occurs in s at offset k (counted from 0)
OccursAt(s, p, k) ==
    /\ k + Len(p) <= Len(s)
    /\ \A j \in 1..Len(p) : s[k + j] = p[j]

None == -1

RECURSIVE FindFrom(_, _, _)
FindFrom(s, p, k) ==
    IF k + Len(p) > Len(s) THEN None
    ELSE IF OccursAt(s, p, k) THEN k
    ELSE FindFrom(s, p, k + 1)

\* the last occurrence instead of the first
RECURSIVE FindLastFrom(_, _, _)
FindLastFrom(s, p, k) ==
    IF k < 0 THEN None
    ELSE IF OccursAt(s, p, k) THEN k
    ELSE FindLastFrom(s, p, k - 1)

FindLast(s, p) == FindLastFrom(s, p, Len(s) - Len(p))

\* s.find(p): the offset of the first occurrence, or None
Find(s, p) == FindFrom(s, p, 0)

\* s.replace(" ", "_")
Replace(s) == [k \in 1..Len(s) |-> IF s[k] = " " THEN "_" ELSE s[k]]

Digit(d) == SubSeq(<<"0","1","2","3","4","5","6","7","8","9">>, d + 1, d + 1)

\* the Display of a usize
RECURSIVE ToDec(_)
ToDec(n) == IF n < 10 THEN Digit(n) ELSE ToDec(n \div 10) \o Digit(n % 10)

\* s.lines(): the pieces between "\n"; a final line end opens no empty line
RECURSIVE LinesFrom(_, _, _)
LinesFrom(s, k, acc) ==
    IF k > Len(s) THEN (IF acc = <<>> THEN <<>> ELSE <<acc>>)
    ELSE IF s[k] = "\n" THEN <<acc>> \o LinesFrom(s, k + 1, <<>>)
    ELSE LinesFrom(s, k + 1, Append(acc, s[k]))

Lines(s) == LinesFrom(s, 1, <<>>)

(***************************************************************************)
(* Chunks: one write_all or write! call each.                              *)
(***************************************************************************)
NoStr == <<>>

\* f.write_all(b"...")
Lit(s) == [k |-> s, args |-> <<>>]

\* write!(f, "...{}...", args)
Fmt(s, xs) == [k |-> s, args |-> xs]

(***************************************************************************)
(* make_name                                                               *)
(***************************************************************************)
\* the index appended without the separator
make_name_no_sep(s, idx) == Replace(s) \o ToDec(idx)

make_name(s, idx) == Replace(s) \o <<"_">> \o ToDec(idx)

(***************************************************************************)
(* write_toc                                                               *)
(***************************************************************************)
TocEntry(a, idx) ==
    Fmt("<li><a href=\"{}#{}\">{}</a></li>",
        <<CONTENT_FILE, make_name(a.title, idx), a.title>>)

\* the entries of articles[k..], the index counting the entries written
RECURSIVE TocEntriesCounting(_, _, _)
TocEntriesCounting(as, k, n) ==
    IF k > Len(as) THEN <<>>
    ELSE IF as[k].title = NoStr THEN TocEntriesCounting(as, k + 1, n)
    ELSE <<TocEntry(as[k], n)>> \o TocEntriesCounting(as, k + 1, n + 1)

TocEntriesRenumbered(as, k) == TocEntriesCounting(as, k, 0)

\* the entries of articles[k..], untitled articles included
RECURSIVE TocEntriesAll(_, _)
TocEntriesAll(as, k) ==
    IF k > Len(as) THEN <<>>
    ELSE <<TocEntry(as[k], k - 1)>> \o TocEntriesAll(as, k + 1)

\* the loop of write_toc over articles[k..]; enumerate() counts from 0
RECURSIVE TocEntries(_, _)
TocEntries(as, k) ==
    IF k > Len(as) THEN <<>>
    ELSE IF as[k].title = NoStr THEN TocEntries(as, k + 1)
    ELSE <<TocEntry(as[k], k - 1)>> \o TocEntries(as, k + 1)

TocHead ==
    << Lit("<!DOCTYPE html>"), Lit("<html>"), Lit("<head>"),
       Lit("<meta http-equiv=\"content-type\" content=\"text/html; charset=UTF-8\">"),
       Lit("</head>"), Lit("<body>"),
       Lit("<nav epub:type=\"toc\">"), Lit("<ol>") >>

TocTail == << Lit("</ol>"), Lit("</nav>"), Lit("</body>"), Lit("</html>") >>

\* what write_toc leaves in toc.html
write_toc(as) == TocHead \o TocEntries(as, 1) \o TocTail

(***************************************************************************)
(* write_articles                                                          *)
(***************************************************************************)
\* a marker line without its closing tag passed through unchanged
RenderLineLenient(l) ==
    IF Take(l, MarkerLen) = Marker /\ Find(l, Close) # None
    THEN LET end == Find(l, Close) IN
         [out |-> << Lit("</section>"), Lit("<section>"),
                     Fmt("<h3>{}</h3>", <<Slice(l, MarkerLen, end)>>),
                     Fmt("{}", <<Slice(l, end + CloseLen, Len(l))>>) >>,
          ok |-> TRUE]
    ELSE [out |-> << Fmt("{}", <<l>>) >>, ok |-> TRUE]

\* the body of the loop over a.content.lines(); ok is FALSE when it panics
RenderLine(l) ==
    IF Take(l, MarkerLen) = Marker
    THEN LET end == Find(l, Close) IN
         IF end = None \/ end < MarkerLen
         THEN [out |-> << Lit("</section>"), Lit("<section>") >>, ok |-> FALSE]
         ELSE [out |-> << Lit("</section>"), Lit("<section>"),
                          Fmt("<h3>{}</h3>", <<Slice(l, MarkerLen, end)>>),
                          Fmt("{}", <<Slice(l, end + CloseLen, Len(l))>>) >>,
               ok |-> TRUE]
    ELSE [out |-> << Fmt("{}", <<l>>) >>, ok |-> TRUE]

RECURSIVE RenderLines(_, _)
RenderLines(ls, k) ==
    IF k > Len(ls) THEN [out |-> <<>>, ok |-> TRUE]
    ELSE LET r == RenderLine(ls[k]) IN
         IF ~r.ok THEN r
         ELSE LET rest == RenderLines(ls, k + 1) IN
              [out |-> r.out \o rest.out, ok |-> rest.ok]

\* the anchor of article a at index idx
Anchor(a, idx) ==
    Fmt("<a name=\"{}\"><h1>{}</h1></a>", <<make_name(a.title, idx), a.title>>)

ArticleHead(a, idx) ==
    << Lit("<article>"), Lit("<header><div>"),
       Anchor(a, idx),
       Fmt("<h2>{}</h2>", <<a.blurb>>),
       Lit("</div></header>"),
       Fmt("<address>{}</address>", <<a.byline>>),
       Lit("<section>") >>

ArticleTail == << Lit("</section>"), Lit("</article>") >>

\* the loop of write_articles over articles[k..]
RECURSIVE RenderArticles(_, _)
RenderArticles(as, k) ==
    IF k > Len(as) THEN [out |-> <<>>, ok |-> TRUE]
    ELSE LET body == RenderLines(Lines(as[k].content), 1) IN
         IF ~body.ok
         THEN [out |-> ArticleHead(as[k], k - 1) \o body.out, ok |-> FALSE]
         ELSE LET rest == RenderArticles(as, k + 1) IN
              [out |-> ArticleHead(as[k], k - 1) \o body.out \o ArticleTail
                         \o rest.out,
               ok |-> rest.ok]

ContentHead(title) ==
    << Lit("<!DOCTYPE html>"), Lit("<html>"), Lit("<head>"),
       Fmt("<title>{}</title>", <<title>>),
       Lit("<meta http-equiv=\"content-type\" content=\"text/html; charset=UTF-8\">"),
       Lit("</head>"), Lit("<body>") >>

ContentTail == << Lit("</body>"), Lit("</html>") >>

\* what write_articles leaves in content.html; ok is FALSE when it panics
write_articles(as, title) ==
    LET r == RenderArticles(as, 1) IN
    IF r.ok THEN [out |-> ContentHead(title) \o r.out \o ContentTail, ok |-> TRUE]
    ELSE [out |-> ContentHead(title) \o r.out, ok |-> FALSE]

(***************************************************************************)
(* fetch_refid_pattern, fetch_articles                                     *)
(*                                                                         *)
(* A database file is [exists, sqlite, table]: whether the path is a file, *)
(* whether sqlite can read it, and the rows of its article table in        *)
(* article_id order.  A row is [refid, title, byline, blurb, content].     *)
(***************************************************************************)
Lower == <<"a", "b", "c", "x">>
Upper == <<"A", "B", "C", "X">>

\* LIKE compares ASCII letters without regard to case
Fold(c) ==
    IF \E k \in 1..Len(Lower) : Lower[k] = c
    THEN Upper[CHOOSE k \in 1..Len(Lower) : Lower[k] = c]
    ELSE c

\* s[j..] LIKE p[i..]: % is any run of characters, _ any one character
RECURSIVE LikeFrom(_, _, _, _)
LikeFrom(p, i, s, j) ==
    IF i > Len(p) THEN j > Len(s)
    ELSE IF p[i] = "%" THEN \E m \in j..(Len(s) + 1) : LikeFrom(p, i + 1, s, m)
    ELSE IF j > Len(s) THEN FALSE
    ELSE /\ (p[i] = "_" \/ Fold(p[i]) = Fold(s[j]))
         /\ LikeFrom(p, i + 1, s, j + 1)

Like(s, p) == LikeFrom(p, 1, s, 1)

ArticleOf(row) ==
    [title |-> row.title, byline |-> row.byline, blurb |-> row.blurb,
     content |-> row.content]

\* select_stmt: SELECT title, byline, blurb, content FROM articles WHERE refid LIKE ?
RECURSIVE Select(_, _, _)
Select(table, pat, k) ==
    IF k > Len(table) THEN <<>>
    ELSE IF Like(table[k].refid, pat)
         THEN <<ArticleOf(table[k])>> \o Select(table, pat, k + 1)
         ELSE Select(table, pat, k + 1)

\* refid_stmt: SELECT refid FROM articles ORDER BY article_id DESC LIMIT 1
LatestRefid(table) == table[Len(table)].refid

\* one character short of the prefix
fetch_refid_pattern_short(table) ==
    IF table = <<>> THEN [panic |-> TRUE, pattern |-> NoStr]
    ELSE [panic |-> FALSE,
          pattern |-> Take(LatestRefid(table), PrefixLen - 1) \o <<"%">>]

\* panic is TRUE when the statement returns no row ("no articles")
fetch_refid_pattern(table) ==
    IF table = <<>> THEN [panic |-> TRUE, pattern |-> NoStr]
    ELSE [panic |-> FALSE,
          pattern |-> Take(LatestRefid(table), PrefixLen) \o <<"%">>]

\* outcome is "ok", "err" (an Err of sqlite) or "panic"
fetch_articles(file) ==
    IF ~file.sqlite
    THEN [outcome |-> "err", pattern |-> NoStr, articles |-> <<>>]
    ELSE LET p == fetch_refid_pattern(file.table) IN
         IF p.panic
         THEN [outcome |-> "panic", pattern |-> NoStr, articles |-> <<>>]
         ELSE [outcome |-> "ok", pattern |-> p.pattern,
               articles |-> Select(file.table, p.pattern, 1)]

(***************************************************************************)
(* date_paper, write_opf, is_file                                          *)
(***************************************************************************)
Today == <<"2","0","1","5","-","0","6","-","0","1">>

date_paper(name) == name \o <<" ", "-", " ">> \o Today

write_opf(title) ==
    << Fmt("<package unique-identifier={} title={} publisher={} date={} toc={} content={}>",
           <<title, title, title, Today, TOC_FILE, CONTENT_FILE>>) >>

is_file_always(file) == TRUE

is_file(file) == file.exists

(***************************************************************************)
(* The databases a run may find in temp_dir().                             *)
(***************************************************************************)
Row(refid, title, content) ==
    [refid |-> refid, title |-> title, byline |-> <<"B">>, blurb |-> <<"s">>,
     content |-> content]

NoFile == [exists |-> FALSE, sqlite |-> FALSE, table |-> <<>>]
NotADb == [exists |-> TRUE, sqlite |-> FALSE, table |-> <<>>]
Db(table) == [exists |-> TRUE, sqlite |-> TRUE, table |-> table]

\* yesterday's article, then today's edition: a titled article with a
\* sub-heading and an untitled one
DbGood ==
    Db(<< Row(<<"A","B","C","1","2","2","X">>, <<"o">>, <<"x">>),
          Row(<<"A","B","C","1","2","3","X">>, <<"a"," ","b">>,
              <<"x","\n">> \o Marker \o <<"F">> \o Close \o <<"B">>),
          Row(<<"A","B","C","1","2","3","Y">>, NoStr, <<"y","\n","z">>) >>)

\* an article table without rows
DbEmpty == Db(<<>>)

\* the latest refid has fewer characters than the prefix
DbShort ==
    Db(<< Row(<<"A","B","1">>, <<"a">>, <<"x">>),
          Row(<<"A","B","1","2">>, <<"b">>, <<"y">>) >>)

\* a sub-heading marker without </div> on its line
DbBad ==
    Db(<< Row(<<"A","B","C","1","2","3","X">>, <<"a">>,
              <<"x","\n">> \o Marker \o <<"F","\n">> \o Close) >>)

Files == {NoFile, NotADb, DbGood, DbEmpty, DbShort, DbBad}

Config(k) == [name |-> <<"p">> \o ToDec(k)]

NoOwner == 0
NoFileYet == [owner |-> NoOwner, doc |-> <<>>, complete |-> FALSE]
Idle == [out |-> <<>>, ok |-> TRUE]

(***************************************************************************)
(* convert_papers                                                          *)
(***************************************************************************)
Init ==
    /\ \E n \in 0..MaxPapers :
         /\ papers = [k \in 1..n |-> Config(k)]
         /\ dbs \in [1..n -> Files]
    /\ cur = 1
    /\ pc = "loop"
    /\ articles = <<>>
    /\ pattern = NoStr
    /\ tocFile = NoFileYet
    /\ contentFile = NoFileYet
    /\ opfFiles = {}
    /\ mobi = <<>>
    /\ log = <<>>
    /\ line = NoStr
    /\ rendered = Idle
    /\ names = <<>>

Called(stage) == Append(log, [paper |-> cur, stage |-> stage])

\* for paper in papers { if is_file(&db) { ... } }
CheckDb ==
    /\ pc = "loop"
    /\ cur <= Len(papers)
    /\ IF is_file(dbs[cur])
       THEN pc' = "fetch" /\ cur' = cur
       ELSE pc' = "loop" /\ cur' = cur + 1
    /\ UNCHANGED <<papers, dbs, articles, pattern, tocFile, contentFile,
                   opfFiles, mobi, log, line, rendered, names>>

\* Ok(()) after the last paper
ReturnOk ==
    /\ pc = "loop"
    /\ cur > Len(papers)
    /\ pc' = "done"
    /\ UNCHANGED <<papers, dbs, cur, articles, pattern, tocFile, contentFile,
                   opfFiles, mobi, log, line, rendered, names>>

\* let articles = fetch_articles(...).unwrap();
FetchArticles ==
    /\ pc = "fetch"
    /\ LET r == fetch_articles(dbs[cur]) IN
         /\ articles' = r.articles
         /\ pattern' = r.pattern
         /\ pc' = IF r.outcome = "ok" THEN "toc" ELSE "panic"
    /\ log' = Called("select")
    /\ UNCHANGED <<papers, dbs, cur, tocFile, contentFile, opfFiles, mobi,
                   line, rendered, names>>

\* try!(write_toc(&articles)); File::create may fail
WriteToc ==
    /\ pc = "toc"
    /\ \E created \in BOOLEAN :
         IF created
         THEN /\ tocFile' = [owner |-> cur, doc |-> write_toc(articles),
                             complete |-> TRUE]
              /\ pc' = "content"
         ELSE /\ pc' = "err"
              /\ UNCHANGED tocFile
    /\ log' = Called("toc")
    /\ UNCHANGED <<papers, dbs, cur, articles, pattern, contentFile, opfFiles,
                   mobi, line, rendered, names>>

\* try!(write_articles(&articles, &name)); the unwrap of find may panic
WriteArticles ==
    /\ pc = "content"
    /\ \E created \in BOOLEAN :
         IF created
         THEN LET r == write_articles(articles, date_paper(papers[cur].name)) IN
              /\ contentFile' = [owner |-> cur, doc |-> r.out, complete |-> r.ok]
              /\ pc' = IF r.ok THEN "opf" ELSE "panic"
         ELSE /\ pc' = "err"
              /\ UNCHANGED contentFile
    /\ log' = Called("content")
    /\ UNCHANGED <<papers, dbs, cur, articles, pattern, tocFile, opfFiles,
                   mobi, line, rendered, names>>

\* the manifest skipped: on to the next paper
WriteOpfNoCompile ==
    /\ pc = "opf"
    /\ opfFiles' = opfFiles \cup
           {[owner |-> cur, doc |-> write_opf(date_paper(papers[cur].name))]}
    /\ pc' = "loop"
    /\ cur' = cur + 1
    /\ log' = Called("opf")
    /\ UNCHANGED <<papers, dbs, articles, pattern, tocFile, contentFile,
                   mobi, line, rendered, names>>

\* try!(write_opf(&name));
WriteOpf ==
    /\ pc = "opf"
    /\ \E created \in BOOLEAN :
         IF created
         THEN /\ opfFiles' = opfFiles \cup
                    {[owner |-> cur,
                      doc |-> write_opf(date_paper(papers[cur].name))]}
              /\ pc' = "kindlegen"
         ELSE /\ pc' = "err"
              /\ UNCHANGED opfFiles
    /\ log' = Called("opf")
    /\ UNCHANGED <<papers, dbs, cur, articles, pattern, tocFile, contentFile,
                   mobi, line, rendered, names>>

\* kindlegen(&name); it panics when the compiler cannot be run or leaves no
\* .mobi to rename.  The compiler reads the manifest of this paper and the
\* toc.html and content.html the manifest names.
Kindlegen ==
    /\ pc = "kindlegen"
    /\ \E compiled \in BOOLEAN :
         IF compiled
         THEN /\ mobi' = Append(mobi, [paper |-> cur, toc |-> tocFile.owner,
                                       content |-> contentFile.owner])
              /\ pc' = "loop"
              /\ cur' = cur + 1
              /\ articles' = <<>>
              /\ pattern' = NoStr
         ELSE /\ pc' = "panic"
              /\ UNCHANGED <<mobi, cur, articles, pattern>>
    /\ log' = Called("kindlegen")
    /\ UNCHANGED <<papers, dbs, tocFile, contentFile, opfFiles, line,
                   rendered, names>>

Next ==
    \/ CheckDb
    \/ ReturnOk
    \/ FetchArticles
    \/ WriteToc
    \/ WriteArticles
    \/ WriteOpf
    \/ Kindlegen

Spec == Init /\ [][Next]_vars

(***************************************************************************)
(* The parts on their own, over all inputs within the bounds.              *)
(***************************************************************************)
StrsUpTo(chars, n) == UNION {[1..m -> chars] : m \in 0..n}

\* --- write_toc and write_articles over all short article sequences -------
TitleChars == {" ", "_", "1"}

Art(t) == [title |-> t, byline |-> <<"B">>, blurb |-> <<"s">>, content |-> <<"x">>]

ArticleSeqs ==
    UNION {[1..m -> {Art(t) : t \in StrsUpTo(TitleChars, MaxTitleLen)}] :
             m \in 0..MaxArticles}

EditionRefid == <<"A","B","C","1","2","3","X">>

\* the state after fetch_articles has returned the articles of paper 1
InitToc ==
    /\ papers = <<Config(1)>>
    /\ articles \in ArticleSeqs
    /\ dbs = <<Db([k \in 1..Len(articles) |->
                    Row(EditionRefid, articles[k].title, articles[k].content)])>>
    /\ cur = 1
    /\ pc = "toc"
    /\ pattern = Take(EditionRefid, PrefixLen) \o <<"%">>
    /\ tocFile = NoFileYet
    /\ contentFile = NoFileYet
    /\ opfFiles = {}
    /\ mobi = <<>>
    /\ log = <<[paper |-> 1, stage |-> "select"]>>
    /\ line = NoStr
    /\ rendered = Idle
    /\ names = <<>>

NextToc ==
    \/ WriteToc
    \/ WriteArticles

SpecToc == InitToc /\ [][NextToc]_vars

\* --- make_name over pairs of titles and positions ------------------------
NameInputs ==
    {[t1 |-> t1, i |-> i, t2 |-> t2, j |-> j, n1 |-> NoStr, n2 |-> NoStr] :
        t1 \in StrsUpTo(TitleChars, MaxNameLen),
        t2 \in StrsUpTo(TitleChars, MaxNameLen),
        i \in 0..MaxIdx, j \in 0..MaxIdx}

InitName ==
    /\ names \in {n \in NameInputs : n.i < n.j}
    /\ pc = "name"
    /\ papers = <<>>
    /\ dbs = <<>>
    /\ cur = 1
    /\ articles = <<>>
    /\ pattern = NoStr
    /\ tocFile = NoFileYet
    /\ contentFile = NoFileYet
    /\ opfFiles = {}
    /\ mobi = <<>>
    /\ log = <<>>
    /\ line = NoStr
    /\ rendered = Idle

\* the anchor names write_articles gives the articles at positions i and j
MakeNames ==
    /\ pc = "name"
    /\ names' = [names EXCEPT !.n1 = make_name(names.t1, names.i),
                              !.n2 = make_name(names.t2, names.j)]
    /\ pc' = "named"
    /\ UNCHANGED <<papers, dbs, cur, articles, pattern, tocFile, contentFile,
                   opfFiles, mobi, log, line, rendered>>

NextName ==
    \/ MakeNames

SpecName == InitName /\ [][NextName]_vars

\* --- the rendering of one content line -----------------------------------
Pieces == {Marker, Close, <<"F">>, <<"<", "/">>}

RECURSIVE Concat(_, _)
Concat(ps, k) == IF k > Len(ps) THEN <<>> ELSE ps[k] \o Concat(ps, k + 1)

LineInputs == {Concat(ps, 1) : ps \in StrsUpTo(Pieces, MaxPieces)}

InitLine ==
    /\ line \in LineInputs
    /\ rendered = Idle
    /\ pc = "line"
    /\ papers = <<>>
    /\ dbs = <<>>
    /\ cur = 1
    /\ articles = <<>>
    /\ pattern = NoStr
    /\ tocFile = NoFileYet
    /\ contentFile = NoFileYet
    /\ opfFiles = {}
    /\ mobi = <<>>
    /\ log = <<>>
    /\ names = <<>>

\* one turn of the loop over a.content.lines()
RenderOneLine ==
    /\ pc = "line"
    /\ rendered' = RenderLine(line)
    /\ pc' = "lined"
    /\ UNCHANGED <<papers, dbs, cur, articles, pattern, tocFile, contentFile,
                   opfFiles, mobi, log, line, names>>

NextLine ==
    \/ RenderOneLine

SpecLine == InitLine /\ [][NextLine]_vars

\* --- fetch_articles over all latest identifiers --------------------------
RefidChars == {"A", "7"}

OldRefid == <<"7","7","7","7","7","7","A">>

SelectTables ==
    {<<>>} \cup
    {<< Row(OldRefid, <<"o">>, <<"x">>), Row(r, <<"a">>, <<"y">>) >> :
        r \in StrsUpTo(RefidChars, MaxRefidLen)}

\* the state in which convert_papers calls fetch_articles for paper 1
InitSelect ==
    /\ papers = <<Config(1)>>
    /\ \E t \in SelectTables : dbs = <<Db(t)>>
    /\ cur = 1
    /\ pc = "fetch"
    /\ articles = <<>>
    /\ pattern = NoStr
    /\ tocFile = NoFileYet
    /\ contentFile = NoFileYet
    /\ opfFiles = {}
    /\ mobi = <<>>
    /\ log = <<>>
    /\ line = NoStr
    /\ rendered = Idle
    /\ names = <<>>

NextSelect ==
    \/ FetchArticles

SpecSelect == InitSelect /\ [][NextSelect]_vars

(***************************************************************************)
(* Properties.                                                             *)
(***************************************************************************)
\* how often kindlegen has compiled paper k
Compiled(k) == Cardinality({m \in 1..Len(mobi) : mobi[m].paper = k})

\* whether convert_papers has made the call `stage` for paper k
Staged(k, stage) == \E n \in 1..Len(log) : log[n] = [paper |-> k, stage |-> stage]

Stages == {"select", "toc", "content", "opf", "kindlegen"}

AnyStage(k) == \E st \in Stages : Staged(k, st)

\* C1: a fatal failure while one paper is processed never aborts the batch:
\* once the run has stopped on a failure at paper cur, every later paper
\* whose database file is present has still been taken up (as the claim
\* has it, through to the compiler).
C1_LaterPapersStillProcessed ==
    pc \in {"panic", "err"} =>
        \A k \in (cur + 1)..Len(papers) : dbs[k].exists => AnyStage(k)

C6_ShortRefidRejected ==
    \A k \in 1..Len(papers) :
        ( /\ k = cur
          /\ dbs[k].sqlite
          /\ dbs[k].table # <<>>
          /\ Len(dbs[k].table[Len(dbs[k].table)].refid) < 6 )
        => /\ pattern = NoStr
           /\ pc \notin {"toc", "content", "opf", "kindlegen"}

\* a marker line that has no </div>
BadLine(l) ==
    /\ Len(l) >= 16
    /\ SubSeq(l, 1, 16) = Marker
    /\ \A k \in 0..(Len(l) - 6) : SubSeq(l, k + 1, k + 6) # Close

BadMarkup(as) ==
    \E i \in 1..Len(as) :
        \E j \in 1..Len(Lines(as[i].content)) : BadLine(Lines(as[i].content)[j])

ContentStarted ==
    /\ cur \in 1..Len(papers)
    /\ Staged(cur, "content")
    /\ contentFile.owner = cur

\* C9: when a content line starts with the marker and has no </div>,
\* rendering stops at that line: the last thing written is the section
\* break of the line, content.html is never completed, and neither the
\* manifest nor the compiler is reached for that paper.
C9_UnclosedMarkerStopsPaper ==
    (ContentStarted /\ BadMarkup(articles)) =>
        /\ pc = "panic"
        /\ ~contentFile.complete
        /\ Len(contentFile.doc) >= 2
        /\ contentFile.doc[Len(contentFile.doc)] = Lit("<section>")
        /\ contentFile.doc[Len(contentFile.doc) - 1] = Lit("</section>")
        /\ \A n \in 1..Len(contentFile.doc) :
               contentFile.doc[n].k \notin {"</html>", "</body>"}
        /\ ~Staged(cur, "opf")
        /\ ~Staged(cur, "kindlegen")
        /\ \A f \in opfFiles : f.owner # cur
        /\ Compiled(cur) = 0

C9_Witness ==
    /\ ContentStarted
    /\ BadMarkup(articles)
    /\ pc = "panic"
    /\ cur = 2
    /\ Compiled(1) = 1

StageNo(st) ==
    CASE st = "select" -> 1
      [] st = "toc" -> 2
      [] st = "content" -> 3
      [] st = "opf" -> 4
      [] st = "kindlegen" -> 5

\* C10: papers are processed one at a time and in list order, the stages of
\* a paper in the order select, toc, content, manifest, compiler; no stage
\* of a paper starts before the compiler has finished the paper before it;
\* and every compiler run finds in toc.html and content.html the output of
\* the paper whose manifest it compiles.
C10_OnePaperAtATime ==
    /\ \A n \in 1..Len(log) :
         IF n = 1 THEN log[n].stage = "select"
         ELSE \/ /\ log[n].paper = log[n - 1].paper
                 /\ StageNo(log[n].stage) = StageNo(log[n - 1].stage) + 1
              \/ /\ log[n].paper > log[n - 1].paper
                 /\ log[n - 1].stage = "kindlegen"
                 /\ log[n].stage = "select"
                 /\ Compiled(log[n - 1].paper) = 1
    /\ \A m \in 1..Len(mobi) :
         /\ mobi[m].toc = mobi[m].paper
         /\ mobi[m].content = mobi[m].paper
         /\ \E f \in opfFiles : f.owner = mobi[m].paper

\* two papers compiled, one after the other
C10_Witness ==
    /\ Len(mobi) = 2
    /\ mobi[1].paper = 1
    /\ mobi[2].paper = 2
    /\ pc = "done"

IsLi(c) == c.k = "<li><a href=\"{}#{}\">{}</a></li>"

IsAnchor(c) == c.k = "<a name=\"{}\"><h1>{}</h1></a>"

Titled(a) == a.title # <<>>

\* the <li> entries of toc.html and the anchors of content.html
TocLis == SelectSeq(tocFile.doc, IsLi)

ContentAnchors == SelectSeq(contentFile.doc, IsAnchor)

TocWritten == tocFile.owner = cur /\ Staged(cur, "toc")

ContentWritten == contentFile.owner = cur /\ Staged(cur, "content")

\* C3: toc.html has exactly one <li> entry for each article with a
\* non-empty title and none for an article whose title is empty, and the
\* entries stand in the order of the articles.
C3_TocListsTitledArticles ==
    TocWritten =>
        LET titled == SelectSeq(articles, Titled) IN
        /\ Len(TocLis) = Len(titled)
        /\ \A n \in 1..Len(TocLis) :
             /\ TocLis[n].args[3] = titled[n].title
             /\ TocLis[n].args[3] # <<>>

\* an untitled article between two titled ones
C3_Witness ==
    /\ TocWritten
    /\ Len(articles) = 3
    /\ Titled(articles[1]) /\ ~Titled(articles[2]) /\ Titled(articles[3])
    /\ articles[1].title # articles[3].title

\* the number of titled articles among the first i
Rank(i) == Cardinality({j \in 1..i : Titled(articles[j])})

\* C4: for every article i with a non-empty title, the fragment of its
\* href in toc.html is the name of the anchor of article i in content.html,
\* also when untitled articles come before it.
C4_HrefMatchesAnchor ==
    (TocWritten /\ ContentWritten) =>
        /\ Len(ContentAnchors) = Len(articles)
        /\ \A i \in 1..Len(articles) :
             Titled(articles[i]) =>
                 /\ Rank(i) <= Len(TocLis)
                 /\ TocLis[Rank(i)].args[1] = CONTENT_FILE
                 /\ TocLis[Rank(i)].args[2] = ContentAnchors[i].args[1]
                 /\ TocLis[Rank(i)].args[3] = ContentAnchors[i].args[2]

\* a titled article after an untitled one, both files written
C4_Witness ==
    /\ TocWritten
    /\ ContentWritten
    /\ contentFile.complete
    /\ Len(articles) >= 2
    /\ ~Titled(articles[1])
    /\ Titled(articles[2])

\* C5: the anchor names of two distinct positions differ, whatever the two
\* titles are.
C5_NamesDiffer ==
    pc = "named" => names.n1 # names.n2

\* the same title at two positions, one of them with two digits
C5_Witness ==
    /\ pc = "named"
    /\ names.t1 = names.t2
    /\ names.t1 = <<"_", "1">>
    /\ names.i = 1
    /\ names.j = 11

\* C7: for a latest identifier of at least 6 characters the pattern is its
\* first 6 characters followed by one %, and it is the pattern the
\* selection runs with: the articles are those whose refid has the prefix.
C7_PatternIsPrefixPercent ==
    (pc = "toc" /\ cur = 1) =>
        LET t == dbs[1].table
            id == t[Len(t)].refid
            HasPrefix(r) == Len(r) >= 6 /\ \A k \in 1..6 : r[k] = id[k]
            hits == SelectSeq(t, LAMBDA r : HasPrefix(r.refid))
        IN  Len(id) >= 6 =>
              /\ Len(pattern) = 7
              /\ \A k \in 1..6 : pattern[k] = id[k]
              /\ pattern[7] = "%"
              /\ Len(articles) = Len(hits)
              /\ \A n \in 1..Len(hits) : articles[n].title = hits[n].title

\* a latest identifier longer than the prefix, yesterday's article left out
C7_Witness ==
    /\ pc = "toc"
    /\ Len(dbs[1].table) = 2
    /\ Len(dbs[1].table[2].refid) = 7
    /\ Len(articles) = 1
    /\ articles[1].title = <<"a">>

StartsWithMarker(l) == Len(l) >= 16 /\ SubSeq(l, 1, 16) = Marker

\* whether </div> stands in l at offset k
CloseAt(l, k) == k + 6 <= Len(l) /\ SubSeq(l, k + 1, k + 6) = Close

\* C8: for a line that starts with the 16 characters of the marker and
\* holds </div>, the output is </section><section>, then <h3>H</h3>, then
\* R, with H the text between the marker and the first </div> and R the
\* rest of the line; a line that does not start with the marker is emitted
\* unchanged and opens no section.
C8_MarkerLineBecomesSection ==
    pc = "lined" =>
        IF StartsWithMarker(line)
        THEN (\E e \in 0..Len(line) : CloseAt(line, e)) =>
               \E e \in 16..Len(line) :
                  /\ CloseAt(line, e)
                  /\ \A k \in 0..(e - 1) : ~CloseAt(line, k)
                  /\ rendered =
                       [out |-> << Lit("</section>"), Lit("<section>"),
                                   Fmt("<h3>{}</h3>", <<SubSeq(line, 17, e)>>),
                                   Fmt("{}", <<SubSeq(line, e + 7, Len(line))>>) >>,
                        ok |-> TRUE]
        ELSE rendered = [out |-> << Fmt("{}", <<line>>) >>, ok |-> TRUE]

\* a marker line with a heading and two </div>
C8_Witness ==
    /\ pc = "lined"
    /\ line = Marker \o <<"F">> \o Close \o Close
    /\ rendered.ok
    /\ Len(rendered.out) = 4
    /\ rendered.out[3].args[1] = <<"F">>
    /\ rendered.out[4].args[1] = Close

====
